---- MODULE Spec2Model ----
(***************************************************************************)
(* Model of the variable-sensitivity domain's configuration (vsd_configt)  *)
(* and of the abstract-object factory                                      *)
(* (variable_sensitivity_object_factoryt), from                            *)
(* src/analyses/variable-sensitivity/variable_sensitivity_object_factory.h *)
(***************************************************************************)
EXTENDS Naturals, FiniteSets, Sequences, TLC

VARIABLES pc, options, origin, config, exception, local_config,
          factory, call, outcome, wrappers

vars == <<pc, options, origin, config, exception, local_config,
          factory, call, outcome, wrappers>>

(***************************************************************************)
(* Bounds                                                                  *)
(***************************************************************************)
\* Seed expressions of one type are told apart by a value in 1..MaxSeed.
MaxSeed == 2

(***************************************************************************)
(* optionst: the command-line flags from_options reads                     *)
(***************************************************************************)
OptionNames ==
  {"structs", "arrays", "pointers", "data-dependencies", "interval",
   "value-set", "new-value-set"}

\* An optionst value: the set of the flags that are set.
Options == SUBSET OptionNames

\* optionst::get_bool_option: false for a flag that is not set.
get_bool_option(opts, name) == name \in opts

(***************************************************************************)
(* vsd_configt                                                             *)
(***************************************************************************)
vsd_configt ==
  [primitive_sensitivity :
     [struct_sensitivity : BOOLEAN, array_sensitivity : BOOLEAN,
      pointer_sensitivity : BOOLEAN],
   context_tracking :
     [data_dependency_context : BOOLEAN, last_write_context : BOOLEAN],
   advanced_sensitivities :
     [intervals : BOOLEAN, value_set : BOOLEAN, new_value_set : BOOLEAN]]

\* vsd_configt config{}; value-initialisation sets every field to false.
value_initialized ==
  [primitive_sensitivity |->
     [struct_sensitivity |-> FALSE, array_sensitivity |-> FALSE,
      pointer_sensitivity |-> FALSE],
   context_tracking |->
     [data_dependency_context |-> FALSE, last_write_context |-> FALSE],
   advanced_sensitivities |->
     [intervals |-> FALSE, value_set |-> FALSE, new_value_set |-> FALSE]]

NoConfig == [none |-> TRUE]
NoException == [none |-> TRUE]

\* invalid_command_line_argument_exceptiont{reason, option, correct_input}
invalid_command_line_argument_exceptiont(reason, option, correct_input) ==
  [reason |-> reason, option |-> option, correct_input |-> correct_input]

\* from_options, lines 60-62: the combination that is rejected.
conflicting(opts) ==
  get_bool_option(opts, "value-set")
    /\ get_bool_option(opts, "data-dependencies")

\* from_options, lines 64-67: the exception thrown for it.
conflict_exception ==
  invalid_command_line_argument_exceptiont(
    "Value set is not currently supported with data dependency analysis",
    "--value-set --data-dependencies",
    "--data-dependencies")

\* from_options, lines 70-88: the assignments to the fields of `local`.
fill(local, opts) ==
  [local EXCEPT
     !.primitive_sensitivity.struct_sensitivity =
        get_bool_option(opts, "structs"),
     !.primitive_sensitivity.array_sensitivity =
        get_bool_option(opts, "arrays"),
     !.primitive_sensitivity.pointer_sensitivity =
        get_bool_option(opts, "pointers"),
     !.context_tracking.last_write_context =
        ~get_bool_option(opts, "value-set"),
     !.context_tracking.data_dependency_context =
        get_bool_option(opts, "data-dependencies"),
     !.advanced_sensitivities.intervals =
        get_bool_option(opts, "interval"),
     !.advanced_sensitivities.value_set =
        get_bool_option(opts, "value-set"),
     !.advanced_sensitivities.new_value_set =
        get_bool_option(opts, "new-value-set")]

\* What a call of from_options leaves: the configuration returned (NoConfig
\* when it throws), the exception thrown (NoException when it returns) and
\* the value of its local `config` when control leaves the function.
Thrown(e, local) == [returned |-> NoConfig, thrown |-> e, local |-> local]
Returned(local) == [returned |-> local, thrown |-> NoException, local |-> local]

\* from_options rejecting either flag of the pair instead of the pair.
from_options_either(opts) ==
  IF get_bool_option(opts, "value-set")
       \/ get_bool_option(opts, "data-dependencies")
  THEN Thrown(conflict_exception, value_initialized)
  ELSE Returned(fill(value_initialized, opts))

\* from_options with the last-write context always on, as the comment on
\* lines 77-78 begins.
from_options_lwc_on(opts) ==
  IF conflicting(opts)
  THEN Thrown(conflict_exception, value_initialized)
  ELSE Returned([fill(value_initialized, opts) EXCEPT
                   !.context_tracking.last_write_context = TRUE])

\* from_options with the two context modes made exclusive.
from_options_one_context(opts) ==
  IF conflicting(opts)
  THEN Thrown(conflict_exception, value_initialized)
  ELSE Returned([fill(value_initialized, opts) EXCEPT
                   !.context_tracking.last_write_context =
                      ~get_bool_option(opts, "value-set")
                        /\ ~get_bool_option(opts, "data-dependencies")])

\* vsd_configt::from_options
from_options(opts) ==
  IF conflicting(opts)
  THEN Thrown(conflict_exception, value_initialized)
  ELSE Returned(fill(value_initialized, opts))

\* vsd_configt::constant_domain
constant_domain ==
  [value_initialized EXCEPT
     !.primitive_sensitivity.pointer_sensitivity = TRUE,
     !.primitive_sensitivity.array_sensitivity = TRUE,
     !.primitive_sensitivity.struct_sensitivity = TRUE,
     !.context_tracking.last_write_context = TRUE]

\* value_set with the last-write context of the other two presets.
value_set_with_context ==
  [value_initialized EXCEPT
     !.primitive_sensitivity.pointer_sensitivity = TRUE,
     !.primitive_sensitivity.array_sensitivity = TRUE,
     !.primitive_sensitivity.struct_sensitivity = TRUE,
     !.context_tracking.last_write_context = TRUE,
     !.advanced_sensitivities.value_set = TRUE]

\* vsd_configt::value_set
value_set ==
  [value_initialized EXCEPT
     !.primitive_sensitivity.pointer_sensitivity = TRUE,
     !.primitive_sensitivity.array_sensitivity = TRUE,
     !.primitive_sensitivity.struct_sensitivity = TRUE,
     !.advanced_sensitivities.value_set = TRUE]

\* vsd_configt::intervals
intervals ==
  [value_initialized EXCEPT
     !.primitive_sensitivity.pointer_sensitivity = TRUE,
     !.primitive_sensitivity.array_sensitivity = TRUE,
     !.primitive_sensitivity.struct_sensitivity = TRUE,
     !.context_tracking.last_write_context = TRUE,
     !.advanced_sensitivities.intervals = TRUE]

\* The named presets, by the name of the static member function.
preset(name) ==
  CASE name = "constant_domain" -> constant_domain
    [] name = "value_set" -> value_set
    [] name = "intervals" -> intervals

PresetNames == {"constant_domain", "value_set", "intervals"}

(***************************************************************************)
(* Types, expressions, namespace, environment: the factory's collaborators *)
(***************************************************************************)
\* typet: a scalar type, a struct type, and a tag that names the struct.
Types == {"signedbv", "struct", "struct_tag"}

\* namespacet: the symbol table maps a tag to the type it names.
Namespace == [t \in {"struct_tag"} |-> "struct"]

\* namespacet::follow: a tag resolves to its definition, any other type to
\* itself.
follow(ns, type) == IF type \in DOMAIN ns THEN ns[type] ELSE type

\* exprt: the seed expression, with its type.
Exprs == [type : Types, value : 1..MaxSeed]

\* abstract_environmentt: the environment of the run.
Environments == {"environment"}

\* abstract_object_classt: classes the templates are instantiated with.
Classes == {"constant_abstract_valuet", "full_struct_abstract_objectt"}

\* context_classt
ContextClasses == {"write_location_contextt", "data_dependency_contextt"}

(***************************************************************************)
(* Abstract objects                                                        *)
(***************************************************************************)
NoObject == [kind |-> "none"]
NoExpr == [none |-> TRUE]
NoEnvironment == "none"
NoViolation == "none"

\* What a constructor or a factory function leaves: the handle returned
\* (NoObject when it aborts), the invariant violated (NoViolation when it
\* returns) and the number of objects whose construction completed.
Built(object, n) ==
  [object |-> object, violation |-> NoViolation, constructed |-> n]
Aborted(violation, n) ==
  [object |-> NoObject, violation |-> violation, constructed |-> n]

TopAndBottom == "!(top && bottom)"
TypeSeedMismatch == "type == ns.follow(e.type())"

\* abstract_object_classt(type, top, bottom) without the lattice check.
abstract_object_unchecked(class, type, top, bottom) ==
  Built([kind |-> "base", class |-> class, type |-> type,
         top |-> top, bottom |-> bottom,
         seed |-> NoExpr, environment |-> NoEnvironment], 1)

\* abstract_object_classt(type, top, bottom): an object in the requested
\* lattice state; top and bottom together break the object's invariant.
abstract_object(class, type, top, bottom) ==
  IF top /\ bottom
  THEN Aborted(TopAndBottom, 0)
  ELSE Built([kind |-> "base", class |-> class, type |-> type,
              top |-> top, bottom |-> bottom,
              seed |-> NoExpr, environment |-> NoEnvironment], 1)

\* abstract_object_classt(e, environment, ns): neither top nor bottom, the
\* payload taken from the expression, the type the expression's resolved type.
abstract_object_from_expr(class, e, environment, ns) ==
  Built([kind |-> "base", class |-> class, type |-> follow(ns, e.type),
         top |-> FALSE, bottom |-> FALSE,
         seed |-> e, environment |-> environment], 1)

\* context_classt(child, type, top, bottom): owns child.
context_object(context_class, child, type, top, bottom) ==
  IF top /\ bottom
  THEN Aborted(TopAndBottom, 0)
  ELSE Built([kind |-> context_class, child |-> child, type |-> type,
              top |-> top, bottom |-> bottom,
              seed |-> NoExpr, environment |-> NoEnvironment], 1)

\* context_classt(child, e, environment, ns): owns child.
context_object_from_expr(context_class, child, e, environment, ns) ==
  Built([kind |-> context_class, child |-> child,
         type |-> follow(ns, e.type),
         top |-> FALSE, bottom |-> FALSE,
         seed |-> e, environment |-> environment], 1)

\* abstract_objectt::is_top, is_bottom
is_top(object) == object.top
is_bottom(object) == object.bottom

IsWrapper(object) == object.kind \in ContextClasses
IsBase(object) == object.kind = "base"

\* How many context wrappers enclose the base object.
RECURSIVE depth(_)
depth(object) == IF IsWrapper(object) THEN 1 + depth(object.child) ELSE 0

\* One constructor after another: the inner object first, then the outer
\* one around it; `outer` is what the outer constructor leaves when the inner
\* one returned.
Wrap(inner, outer) ==
  IF inner.violation # NoViolation
  THEN inner
  ELSE IF outer.violation # NoViolation
       THEN Aborted(outer.violation, inner.constructed + outer.constructed)
       ELSE Built(outer.object, inner.constructed + outer.constructed)

(***************************************************************************)
(* variable_sensitivity_object_factoryt                                    *)
(***************************************************************************)
NoFactory == [none |-> TRUE]

\* variable_sensitivity_object_factoryt(const vsd_configt &options)
variable_sensitivity_object_factoryt(opts) ==
  [configuration |-> opts, initialized |-> TRUE]

\* variable_sensitivity_object_factoryt::configured_with
configured_with(opts) == variable_sensitivity_object_factoryt(opts)

\* initialize_context_abstract_object passing top and bottom to the inner
\* object in the other order.
initialize_context_swapped(class, context_class, type, top, bottom, e, environment, ns) ==
  IF top \/ bottom
  THEN LET inner == abstract_object(class, type, bottom, top) IN
       Wrap(inner,
            context_object(context_class, inner.object, type, top, bottom))
  ELSE IF type # follow(ns, e.type)
       THEN Aborted(TypeSeedMismatch, 0)
       ELSE LET inner == abstract_object_from_expr(class, e, environment, ns)
            IN Wrap(inner,
                    context_object_from_expr(
                      context_class, inner.object, e, environment, ns))

\* initialize_context_abstract_object without its PRECONDITION.
initialize_context_unchecked(class, context_class, type, top, bottom, e, environment, ns) ==
  IF top \/ bottom
  THEN LET inner == abstract_object(class, type, top, bottom) IN
       Wrap(inner,
            context_object(context_class, inner.object, type, top, bottom))
  ELSE LET inner == abstract_object_from_expr(class, e, environment, ns)
       IN Wrap(inner,
               context_object_from_expr(
                 context_class, inner.object, e, environment, ns))

\* variable_sensitivity_object_factoryt::initialize_context_abstract_object
initialize_context_abstract_object(class, context_class, type, top, bottom, e, environment, ns) ==
  IF top \/ bottom
  THEN LET inner == abstract_object(class, type, top, bottom) IN
       Wrap(inner,
            context_object(context_class, inner.object, type, top, bottom))
  ELSE IF type # follow(ns, e.type)
       THEN Aborted(TypeSeedMismatch, 0)
       ELSE LET inner == abstract_object_from_expr(class, e, environment, ns)
            IN Wrap(inner,
                    context_object_from_expr(
                      context_class, inner.object, e, environment, ns))

\* The branch of initialize_abstract_object that applies no wrapper.
initialize_unwrapped(class, type, top, bottom, e, environment, ns) ==
  IF top \/ bottom
  THEN abstract_object(class, type, top, bottom)
  ELSE IF type # follow(ns, e.type)
       THEN Aborted(TypeSeedMismatch, 0)
       ELSE abstract_object_from_expr(class, e, environment, ns)

\* A context wrapper around whatever `inner` left.
wrap_again(context_class, inner, type, top, bottom, e, environment, ns) ==
  Wrap(inner,
       IF top \/ bottom
       THEN context_object(context_class, inner.object, type, top, bottom)
       ELSE context_object_from_expr(
              context_class, inner.object, e, environment, ns))

\* initialize_abstract_object applying each wrapper its flag asks for: the
\* first `if` falling through to the second instead of returning.
initialize_abstract_object_both(configuration, class, type, top, bottom, e, environment, ns) ==
  IF configuration.context_tracking.data_dependency_context
       /\ configuration.context_tracking.last_write_context
  THEN wrap_again(
         "data_dependency_contextt",
         initialize_context_abstract_object(
           class, "write_location_contextt",
           type, top, bottom, e, environment, ns),
         type, top, bottom, e, environment, ns)
  ELSE IF configuration.context_tracking.data_dependency_context
  THEN initialize_context_abstract_object(
         class, "data_dependency_contextt",
         type, top, bottom, e, environment, ns)
  ELSE IF configuration.context_tracking.last_write_context
  THEN initialize_context_abstract_object(
         class, "write_location_contextt",
         type, top, bottom, e, environment, ns)
  ELSE initialize_unwrapped(class, type, top, bottom, e, environment, ns)

\* initialize_abstract_object testing the last-write context first.
initialize_abstract_object_lwc_first(configuration, class, type, top, bottom, e, environment, ns) ==
  IF configuration.context_tracking.last_write_context
  THEN initialize_context_abstract_object(
         class, "write_location_contextt",
         type, top, bottom, e, environment, ns)
  ELSE IF configuration.context_tracking.data_dependency_context
  THEN initialize_context_abstract_object(
         class, "data_dependency_contextt",
         type, top, bottom, e, environment, ns)
  ELSE initialize_unwrapped(class, type, top, bottom, e, environment, ns)

\* variable_sensitivity_object_factoryt::initialize_abstract_object
initialize_abstract_object(configuration, class, type, top, bottom, e, environment, ns) ==
  IF configuration.context_tracking.data_dependency_context
  THEN initialize_context_abstract_object(
         class, "data_dependency_contextt",
         type, top, bottom, e, environment, ns)
  ELSE IF configuration.context_tracking.last_write_context
  THEN initialize_context_abstract_object(
         class, "write_location_contextt",
         type, top, bottom, e, environment, ns)
  ELSE initialize_unwrapped(class, type, top, bottom, e, environment, ns)

(***************************************************************************)
(* The run: configure, build the factory, ask it for objects               *)
(***************************************************************************)
NoOptions == {"<none>"}
NoCall == [none |-> TRUE]
NoOutcome == [object |-> NoObject, violation |-> NoViolation, constructed |-> 0]

Init ==
  /\ pc = "start"
  /\ options = NoOptions
  /\ origin = "none"
  /\ config = NoConfig
  /\ exception = NoException
  /\ local_config = NoConfig
  /\ factory = NoFactory
  /\ call = NoCall
  /\ outcome = NoOutcome
  /\ wrappers = {}

\* The caller builds the configuration from the command line's flags.
FromOptions(opts) ==
  /\ pc = "start"
  /\ LET r == from_options(opts) IN
       /\ options' = opts
       /\ origin' = "from_options"
       /\ config' = r.returned
       /\ exception' = r.thrown
       /\ local_config' = r.local
       /\ pc' = IF r.thrown # NoException THEN "config_error" ELSE "configured"
  /\ UNCHANGED <<factory, call, outcome, wrappers>>

\* The caller takes a named preset.
Preset(name) ==
  /\ pc = "start"
  /\ origin' = name
  /\ config' = preset(name)
  /\ pc' = "configured"
  /\ UNCHANGED <<options, exception, local_config, factory, call, outcome,
                 wrappers>>

\* The caller fills in a vsd_configt itself: the struct is an aggregate with
\* public members and no constructor. It starts from a value-initialised
\* object or a preset and assigns the context and value-set members.
Aggregate(base, ddc, lwc, vs) ==
  /\ pc = "start"
  /\ origin' = "aggregate"
  /\ config' = [base EXCEPT
                  !.context_tracking.data_dependency_context = ddc,
                  !.context_tracking.last_write_context = lwc,
                  !.advanced_sensitivities.value_set = vs]
  /\ pc' = "configured"
  /\ UNCHANGED <<options, exception, local_config, factory, call, outcome,
                 wrappers>>

\* The caller builds the factory from the configuration it holds.
ConfiguredWith ==
  /\ pc = "configured"
  /\ factory' = configured_with(config)
  /\ pc' = "ready"
  /\ UNCHANGED <<options, origin, config, exception, local_config, call,
                 outcome, wrappers>>

\* One request to the factory: initialize_abstract_object instantiated with
\* class, on the arguments get_abstract_object was given.
InitializeAbstractObject(class, type, top, bottom, e, environment) ==
  /\ pc = "ready"
  /\ LET r == initialize_abstract_object(
                factory.configuration, class, type, top, bottom, e,
                environment, Namespace)
     IN /\ outcome' = r
        /\ wrappers' = IF r.violation = NoViolation
                       THEN wrappers \cup {r.object.kind}
                       ELSE wrappers
        /\ pc' = IF r.violation = NoViolation
                 THEN "ready" ELSE "contract_violation"
  /\ call' = [class |-> class, type |-> type, top |-> top, bottom |-> bottom,
              e |-> e, environment |-> environment]
  /\ UNCHANGED <<options, origin, config, exception, local_config, factory>>

Next ==
  \/ \E opts \in Options : FromOptions(opts)
  \/ \E name \in PresetNames : Preset(name)
  \/ \E base \in {value_initialized} \cup {preset(n) : n \in PresetNames},
        ddc \in BOOLEAN, lwc \in BOOLEAN, vs \in BOOLEAN :
       Aggregate(base, ddc, lwc, vs)
  \/ ConfiguredWith
  \/ \E class \in Classes, type \in Types, top \in BOOLEAN, bottom \in BOOLEAN,
        e \in Exprs, environment \in Environments :
       InitializeAbstractObject(class, type, top, bottom, e, environment)

Spec == Init /\ [][Next]_vars

(***************************************************************************)
(* Properties                                                              *)
(***************************************************************************)
Configuration == factory.configuration

\* The last request returned an object.
ReturnedObject == call # NoCall /\ outcome.violation = NoViolation

Sensitive == {"structs", "arrays", "pointers"}

\* C1: from_options throws exactly when "value-set" and "data-dependencies"
\* are both set, whatever the other flags; the exception names the pair
\* "--value-set --data-dependencies" and the fix, the local configuration is
\* still value-initialised when it is thrown, and nothing is returned (so no
\* factory is ever built). Every other flag set returns a configuration and
\* throws nothing.
C1_ConflictRejected ==
  origin = "from_options" =>
    IF "value-set" \in options /\ "data-dependencies" \in options
    THEN /\ pc = "config_error"
         /\ exception # NoException
         /\ exception.option = "--value-set --data-dependencies"
         /\ exception.correct_input = "--data-dependencies"
         /\ local_config = value_initialized
         /\ config = NoConfig
         /\ factory = NoFactory
    ELSE /\ pc # "config_error"
         /\ exception = NoException
         /\ config \in vsd_configt

\* C1 witness: the pair is rejected with other flags set beside it.
C1_Witness ==
  /\ pc = "config_error"
  /\ options = {"value-set", "data-dependencies", "interval", "structs"}
  /\ exception.option = "--value-set --data-dependencies"

\* C2: an accepted flag set gives last_write_context = ~"value-set";
\* "value-set" alone is accepted and gives last_write_context false and
\* value_set true; the empty flag set gives last_write_context true.
C2_LastWriteIsNotValueSet ==
  origin = "from_options" /\ ~conflicting(options) =>
    /\ config # NoConfig
    /\ config.context_tracking.last_write_context = ("value-set" \notin options)
    /\ config.advanced_sensitivities.value_set = ("value-set" \in options)
    /\ options = {"value-set"} =>
         /\ config.context_tracking.last_write_context = FALSE
         /\ config.advanced_sensitivities.value_set = TRUE
    /\ options = {} => config.context_tracking.last_write_context = TRUE

\* C2 witness: "value-set" alone was accepted.
C2_Witness ==
  /\ origin = "from_options"
  /\ options = {"value-set"}
  /\ pc = "configured"
  /\ config.context_tracking.last_write_context = FALSE

BothExclusive(c) ==
  c.context_tracking.data_dependency_context
    /\ c.advanced_sensitivities.value_set

\* C3: no configuration returned by from_options or by a preset, and no
\* configuration held by a factory, has data_dependency_context and value_set
\* both true.
C3_MutuallyExclusive ==
  /\ origin \in {"from_options"} \cup PresetNames /\ config # NoConfig
       => ~BothExclusive(config)
  /\ factory # NoFactory => ~BothExclusive(Configuration)

\* C4: a returned object is wrapped exactly once when data_dependency_context
\* or last_write_context is true and not at all otherwise; under a wrapper
\* there is a bare base object.
C4_WrappedAtMostOnce ==
  ReturnedObject =>
    LET o == outcome.object IN
    /\ depth(o) =
         IF Configuration.context_tracking.data_dependency_context
              \/ Configuration.context_tracking.last_write_context
         THEN 1 ELSE 0
    /\ IF IsWrapper(o) THEN IsBase(o.child) ELSE IsBase(o)

\* C4 witness: both context flags true, asked for bottom, one wrapper.
C4_Witness ==
  /\ ReturnedObject
  /\ Configuration.context_tracking.data_dependency_context
  /\ Configuration.context_tracking.last_write_context
  /\ call.bottom
  /\ depth(outcome.object) = 1

\* The wrapper kind a configuration selects.
SelectedKind(c) ==
  IF c.context_tracking.data_dependency_context
  THEN "data_dependency_contextt"
  ELSE IF c.context_tracking.last_write_context
  THEN "write_location_contextt"
  ELSE "base"

\* C5: the wrapper kind is decided by the configuration alone, the
\* data-dependency wrapper taking precedence; every object one factory has
\* returned carries that kind.
C5_WrapperFromConfiguration ==
  /\ ReturnedObject => outcome.object.kind = SelectedKind(Configuration)
  /\ factory # NoFactory => wrappers \subseteq {SelectedKind(Configuration)}

\* C5 witness: both flags true, the object built from a seed carries the
\* data-dependency wrapper.
C5_Witness ==
  /\ ReturnedObject
  /\ Configuration.context_tracking.data_dependency_context
  /\ Configuration.context_tracking.last_write_context
  /\ ~call.top /\ ~call.bottom
  /\ outcome.object.kind = "data_dependency_contextt"
  /\ wrappers = {"data_dependency_contextt"}

\* An object built from (type, top, bottom) of the request, nothing else.
FromLattice(o) ==
  /\ o.type = call.type
  /\ is_top(o) = call.top
  /\ is_bottom(o) = call.bottom
  /\ o.seed = NoExpr
  /\ o.environment = NoEnvironment

\* C6: with top or bottom set the type/seed precondition is never the
\* violation raised, an object is returned unless both are set, it is built
\* from (type, top, bottom) alone and reports is_top = top and
\* is_bottom = bottom; a wrapper and its inner object are built from the same
\* three values.
C6_TopBottomDirect ==
  call # NoCall /\ (call.top \/ call.bottom) =>
    /\ outcome.violation # TypeSeedMismatch
    /\ (outcome.violation = NoViolation) = ~(call.top /\ call.bottom)
    /\ outcome.violation = NoViolation =>
         LET o == outcome.object IN
         /\ FromLattice(o)
         /\ IF IsWrapper(o)
            THEN FromLattice(o.child) /\ o.child.class = call.class
            ELSE o.class = call.class

\* C6 witness: top requested with a seed of another type, under a wrapper.
C6_Witness ==
  /\ ReturnedObject
  /\ call.top
  /\ call.type = "signedbv" /\ call.e.type = "struct"
  /\ IsWrapper(outcome.object)
  /\ is_top(outcome.object.child)

\* An object built from the seed, the environment and the namespace.
FromSeed(o) ==
  /\ o.seed = call.e
  /\ o.environment = call.environment
  /\ o.type = call.type

\* C7: with top and bottom false, a type that differs from the resolved type
\* of the seed aborts the request before anything is constructed; otherwise
\* the base object and its wrapper are built from the seed and environment.
C7_SeedPrecondition ==
  call # NoCall /\ ~call.top /\ ~call.bottom =>
    IF call.type # follow(Namespace, call.e.type)
    THEN /\ outcome.violation = TypeSeedMismatch
         /\ outcome.object = NoObject
         /\ outcome.constructed = 0
         /\ pc = "contract_violation"
    ELSE /\ outcome.violation = NoViolation
         /\ FromSeed(outcome.object)
         /\ IsWrapper(outcome.object) => FromSeed(outcome.object.child)
         /\ outcome.constructed = 1 + depth(outcome.object)

\* C7 witness: a seed of scalar type for a struct aborts a wrapping factory.
C7_Witness ==
  /\ pc = "contract_violation"
  /\ outcome.violation = TypeSeedMismatch
  /\ call.type = "struct" /\ call.e.type = "signedbv"
  /\ Configuration.context_tracking.data_dependency_context

\* C8: no returned object, and no inner object of one, is top and bottom at
\* once; a request with top and bottom both set aborts.
C8_NeverTopAndBottom ==
  call # NoCall =>
    /\ outcome.violation = NoViolation =>
         LET o == outcome.object IN
         /\ ~(is_top(o) /\ is_bottom(o))
         /\ IsWrapper(o) => ~(is_top(o.child) /\ is_bottom(o.child))
    /\ call.top /\ call.bottom =>
         /\ outcome.violation = TopAndBottom
         /\ outcome.object = NoObject

\* C8 witness: top and bottom requested together of an unwrapping factory.
C8_Witness ==
  /\ pc = "contract_violation"
  /\ call.top /\ call.bottom
  /\ outcome.violation = TopAndBottom
  /\ SelectedKind(Configuration) = "base"

Config(structs, arrays, pointers, ddc, lwc, intvl, vs, nvs) ==
  [primitive_sensitivity |->
     [struct_sensitivity |-> structs, array_sensitivity |-> arrays,
      pointer_sensitivity |-> pointers],
   context_tracking |->
     [data_dependency_context |-> ddc, last_write_context |-> lwc],
   advanced_sensitivities |->
     [intervals |-> intvl, value_set |-> vs, new_value_set |-> nvs]]

\* C9: constant_domain() is struct, array, pointer sensitivity and
\* last_write_context; intervals() is that plus intervals; value_set() is
\* struct, array, pointer sensitivity and value_set, with neither context, so
\* its factory returns bare objects. Each equals what from_options returns
\* for {structs, arrays, pointers}, plus "interval", plus "value-set".
C9_Presets ==
  /\ origin = "constant_domain" =>
       /\ config = Config(TRUE, TRUE, TRUE, FALSE, TRUE, FALSE, FALSE, FALSE)
       /\ config = from_options(Sensitive).returned
  /\ origin = "intervals" =>
       /\ config = Config(TRUE, TRUE, TRUE, FALSE, TRUE, TRUE, FALSE, FALSE)
       /\ config = from_options(Sensitive \cup {"interval"}).returned
  /\ origin = "value_set" =>
       /\ config = Config(TRUE, TRUE, TRUE, FALSE, FALSE, FALSE, TRUE, FALSE)
       /\ config = from_options(Sensitive \cup {"value-set"}).returned
       /\ ReturnedObject => IsBase(outcome.object)

\* C9 witness: the factory of the value_set preset returned a bare object.
C9_Witness ==
  /\ origin = "value_set"
  /\ ReturnedObject
  /\ IsBase(outcome.object)
  /\ config.advanced_sensitivities.value_set

\* C10: under a factory configured by from_options an object is wrapped iff
\* "value-set" is not set, by the data-dependency wrapper iff
\* "data-dependencies" is set and by the write-location wrapper iff neither
\* is set; data_dependency_context implies last_write_context.
C10_FlagsToWrapper ==
  origin = "from_options" /\ config # NoConfig =>
    /\ config.context_tracking.data_dependency_context
         => config.context_tracking.last_write_context
    /\ ReturnedObject =>
         LET o == outcome.object IN
         /\ IsWrapper(o) = ("value-set" \notin options)
         /\ (o.kind = "data_dependency_contextt")
              = ("data-dependencies" \in options)
         /\ (o.kind = "write_location_contextt")
              = ("data-dependencies" \notin options
                   /\ "value-set" \notin options)

\* C10 witness: no flag set, the object carries the write-location wrapper.
C10_Witness ==
  /\ origin = "from_options"
  /\ options = {}
  /\ ReturnedObject
  /\ outcome.object.kind = "write_location_contextt"
====
